---- MODULE Spec2Model ----
(***************************************************************************)
(* Canteen management backend: users, food inventory and orders behind an  *)
(* HTTP API (app/api/*.py) over a relational store (app/db/models.py).     *)
(*                                                                         *)
(* The persisted state is the tables the handlers touch.  Every request    *)
(* runs in its own AsyncSession (app/db/session.py): the rows it reads are *)
(* private in-memory copies, nothing is written before db.commit()         *)
(* (autoflush=False), the flush writes the attributes the session changed  *)
(* as absolute values (UPDATE .. SET stock = <value> WHERE id = ..), and   *)
(* closing the session discards what was not committed.  No handler locks  *)
(* a row.  A handler can be interleaved with other requests at each        *)
(* `await`; one action models the code between two awaits.  Between two    *)
(* steps a session is the attributes it has changed (dirty) and the        *)
(* objects it has added (pending).                                         *)
(*                                                                         *)
(* Money is integral here (Float columns in the source).  Food names and   *)
(* categories and the user's name, password and role decide nothing that   *)
(* is checked here and are left out, and so is delete_food_item.  A        *)
(* request body the schema rejects (422) never reaches its handler and     *)
(* is no step.                                                             *)
(***************************************************************************)
EXTENDS Integers, Sequences, FiniteSets, TLC

\* ------------------------------------------------------------------
\* Bounds of the model
\* ------------------------------------------------------------------
MaxFoodId == 2      \* food items created
MaxOrders == 2      \* orders in the table or in flight
MaxLines  == 2      \* lines in one order request
MaxStock  == 2      \* stock a restock may reach
StartStock == 2     \* stock of each food item when SpecOrders starts

Procs == {1, 2}                      \* concurrently served requests
Emails == {"a@x"}                    \* inputs of create_user
UserIds == {1}                       \* user ids a client may send
\* inputs of the stock profile (Spec): one price, stocks and quantities vary
Prices == {10}                       \* price of create/update
StockInputs == {-1, 0, 2}            \* stock of create/update
RestockInputs == {0, 1}              \* added_stock of restock
Quantities == {0, 2}                 \* quantity of an order line
\* inputs of the price profile (SpecPrice): prices vary, stock is 0 or 2
PricesP == {10, 20}
StockInputsP == {2}
RestockInputsP == {2}
QuantitiesP == {2}
\* inputs of the order profile (SpecOrders): orders only, on a stocked store
QuantitiesO == {-1, 0, 1, 2}
FoodIds == 1..MaxFoodId

\* Optional[..]: None, or a value v as <<v>>
None == <<>>
Some(S) == {<<v>> : v \in S}

VARIABLES
    users,      \* table users: sequence of rows, id = index
    foods,      \* table food_items: sequence of rows [price, stock], id = index
    orders,     \* table orders with their order_items, id = index
    pc,         \* per request: the await it is suspended at
    req,        \* per request: the request body
    dirty,      \* per request: the row attributes the session has changed
    pending,    \* per request: the Order object under construction
    resp        \* per request: the response being returned

db   == <<users, foods, orders>>
loc  == <<pc, req, dirty, pending, resp>>
vars == <<users, foods, orders, pc, req, dirty, pending, resp>>

\* ------------------------------------------------------------------
\* Helpers
\* ------------------------------------------------------------------
RECURSIVE SumTotalPrice(_)
SumTotalPrice(items) ==
    IF items = <<>> THEN 0
    ELSE items[1].total_price + SumTotalPrice(Tail(items))

\* total quantity the lines of `items` ask of food item f
RECURSIVE QtyFor(_, _)
QtyFor(items, f) ==
    IF items = <<>> THEN 0
    ELSE (IF items[1].food_item_id = f THEN items[1].quantity ELSE 0)
         + QtyFor(Tail(items), f)

\* HTTPException(status_code, detail); food is the item the detail names
Error(st, d, f) == [status |-> st, detail |-> d, food |-> f]

NoResp == [status |-> 0]
NoReq == [op |-> "none"]
NoPending == [order_id |-> 0, total_amount |-> 0, order_items |-> <<>>]

\* ------------------------------------------------------------------
\* Request schemas
\* ------------------------------------------------------------------
OrderItemCreate(Q) == [food_item_id : FoodIds, quantity : Q]

OrderCreate(Q) ==
    [op : {"create_order"}, user_id : UserIds,
     items : UNION {[1..n -> OrderItemCreate(Q)] : n \in 0..MaxLines}]

\* Field(ge=0) of FoodItemCreate.stock
FoodItemCreateValid(stock) == stock >= 0

\* Field(ge=0) of FoodItemUpdate.stock
FoodItemUpdateValid(stock) == stock = None \/ stock[1] >= 0

FoodItemUpdate(P, S) ==
    {u \in [op : {"update_food_item"}, food_id : FoodIds,
            price : Some(P) \cup {None}, stock : Some(S) \cup {None}] :
        FoodItemUpdateValid(u.stock)}

\* Field(gt=0) of FoodRestock.added_stock
FoodRestockValid(added_stock) == added_stock > 0

FoodRestock(R) ==
    {r \in [op : {"restock_food_item"}, food_id : FoodIds,
            added_stock : R] :
        FoodRestockValid(r.added_stock)}

\* ------------------------------------------------------------------
\* Init: empty database, no request in flight
\* ------------------------------------------------------------------
Idle ==
    /\ pc = [p \in Procs |-> "idle"]
    /\ req = [p \in Procs |-> NoReq]
    /\ dirty = [p \in Procs |-> <<>>]
    /\ pending = [p \in Procs |-> NoPending]
    /\ resp = [p \in Procs |-> NoResp]

Init ==
    /\ users = <<>>
    /\ foods = <<>>
    /\ orders = <<>>
    /\ Idle

\* ------------------------------------------------------------------
\* create_user (one step: the unique index on email decides a race the
\* way the handler's own check does)
\* ------------------------------------------------------------------
create_user(email) ==
    /\ \A i \in DOMAIN users : users[i].email # email
    /\ users' = Append(users, [email |-> email])
    /\ UNCHANGED <<foods, orders>>
    /\ UNCHANGED loc

\* ------------------------------------------------------------------
\* create_food_item (one step: an INSERT of a new row)
\* ------------------------------------------------------------------
create_food_item(price, stock) ==
    /\ FoodItemCreateValid(stock)
    /\ Len(foods) < MaxFoodId
    /\ foods' = Append(foods, [price |-> price, stock |-> stock])
    /\ UNCHANGED <<users, orders>>
    /\ UNCHANGED loc

\* ------------------------------------------------------------------
\* Sessions
\* ------------------------------------------------------------------
\* a request is served in the first free slot (slots are interchangeable)
FreeSlot(p) ==
    /\ pc[p] = "idle"
    /\ \A q \in Procs : q < p => pc[q] # "idle"

\* the handler raises or returns: r is the response, the session is closed
\* next
Respond(p, r) ==
    /\ pc' = [pc EXCEPT ![p] = "close"]
    /\ resp' = [resp EXCEPT ![p] = r]

\* the handler's local objects are dropped
Drop(p) ==
    /\ req' = [req EXCEPT ![p] = NoReq]
    /\ dirty' = [dirty EXCEPT ![p] = <<>>]
    /\ pending' = [pending EXCEPT ![p] = NoPending]

\* SELECT ... WHERE id IN (ids)
FetchFoods(ids) == [f \in ids \cap DOMAIN foods |-> foods[f]]

\* the attributes in which the in-memory rows differ from the rows as read
Changed(rows, now) ==
    [f \in {g \in DOMAIN rows : now[g] # rows[g]} |->
        [price |-> IF now[f].price # rows[f].price THEN <<now[f].price>> ELSE None,
         stock |-> IF now[f].stock # rows[f].stock THEN <<now[f].stock>> ELSE None]]

\* the flush of db.commit(): UPDATE food_items SET <attr> = <in-memory value>
\* WHERE id = f, for the attributes of the session's rows that it changed
Flush(p) ==
    [f \in DOMAIN foods |->
        IF f \in DOMAIN dirty[p]
        THEN [price |-> IF dirty[p][f].price # None
                        THEN dirty[p][f].price[1] ELSE foods[f].price,
              stock |-> IF dirty[p][f].stock # None
                        THEN dirty[p][f].stock[1] ELSE foods[f].stock]
        ELSE foods[f]]

\* (variant: a get_db that flushes the session's changes when it closes)
Rollback_flushes(p) == Flush(p)

\* what session.close() leaves in the store of the work it did not commit
Rollback(p) == foods

\* get_db: `finally: await session.close()` ends the request
get_db_close(p) ==
    /\ pc[p] = "close"
    /\ foods' = Rollback(p)
    /\ pc' = [pc EXCEPT ![p] = "idle"]
    /\ resp' = [resp EXCEPT ![p] = NoResp]
    /\ Drop(p)
    /\ UNCHANGED <<users, orders>>

\* db.commit() raises (a constraint is violated, the store fails): the
\* transaction is rolled back and the request ends with an internal error
commit_fail(p) ==
    /\ pc[p] = "commit"
    /\ Respond(p, Error(500, "Internal Server Error", 0))
    /\ Drop(p)
    /\ UNCHANGED db

\* ------------------------------------------------------------------
\* create_order
\* ------------------------------------------------------------------
InFlightOrders == Cardinality({p \in Procs : req[p].op = "create_order"})

\* (variant: the empty-list check before the user lookup)
CheckRequest_emptyFirst(o, us) ==
    IF o.items = <<>> THEN Error(400, "Order must contain at least one item", 0)
    ELSE IF o.user_id \notin DOMAIN us THEN Error(404, "User not found", 0)
    ELSE NoResp

\* the user lookup, then the empty-list check
CheckRequest(o, us) ==
    IF o.user_id \notin DOMAIN us THEN Error(404, "User not found", 0)
    ELSE IF o.items = <<>> THEN Error(400, "Order must contain at least one item", 0)
    ELSE NoResp

\* (variant: the quantity is not checked against the stock)
CheckLine_noQuantityCheck(item, fs) ==
    LET id == item.food_item_id IN
    IF id \notin DOMAIN fs THEN Error(404, "not found", id)
    ELSE IF fs[id].stock <= 0 THEN Error(400, "is out of stock", id)
    ELSE NoResp

\* (variant: the quantity check before the out-of-stock check)
CheckLine_quantityFirst(item, fs) ==
    LET id == item.food_item_id IN
    IF id \notin DOMAIN fs THEN Error(404, "not found", id)
    ELSE IF item.quantity > fs[id].stock THEN Error(400, "units available", id)
    ELSE IF fs[id].stock <= 0 THEN Error(400, "is out of stock", id)
    ELSE NoResp

\* one line of the loop: the error it raises, NoResp if it is accepted
CheckLine(item, fs) ==
    LET id == item.food_item_id IN
    IF id \notin DOMAIN fs THEN Error(404, "not found", id)
    ELSE IF fs[id].stock <= 0 THEN Error(400, "is out of stock", id)
    ELSE IF item.quantity > fs[id].stock THEN Error(400, "units available", id)
    ELSE NoResp

\* (variant: total_price is the unit price)
NewOrderItem_unitPrice(item, fs) ==
    [food_item_id |-> item.food_item_id,
     quantity |-> item.quantity,
     item_price |-> fs[item.food_item_id].price,
     total_price |-> fs[item.food_item_id].price]

\* the OrderItem an accepted line appends
NewOrderItem(item, fs) ==
    [food_item_id |-> item.food_item_id,
     quantity |-> item.quantity,
     item_price |-> fs[item.food_item_id].price,
     total_price |-> fs[item.food_item_id].price * item.quantity]

\* (variant: a line leaves the in-memory stock as it was read)
TakeStock_notVisible(item, fs) == fs

\* food.stock -= item.quantity
TakeStock(item, fs) ==
    [fs EXCEPT ![item.food_item_id].stock = @ - item.quantity]

\* the loop over order.items from line i on: fs are the session's rows,
\* total and acc the running total_amount and order_items
RECURSIVE Validate(_, _, _, _, _)
Validate(items, i, fs, total, acc) ==
    IF i > Len(items) \/ CheckLine(items[i], fs) # NoResp
    THEN [err |-> IF i > Len(items) THEN NoResp ELSE CheckLine(items[i], fs),
          foods |-> fs, total_amount |-> total, order_items |-> acc]
    ELSE Validate(items, i + 1, TakeStock(items[i], fs),
                  total + NewOrderItem(items[i], fs).total_price,
                  Append(acc, NewOrderItem(items[i], fs)))

\* up to db.commit(): the user lookup and the food fetch are two awaits;
\* no handler updates or deletes a user, so the lookup reads the same at the
\* time of the fetch and the two are one step
create_order_start(p, o) ==
    /\ FreeSlot(p)
    /\ Len(orders) + InFlightOrders < MaxOrders
    /\   /\ req' = [req EXCEPT ![p] = o]
         /\ IF CheckRequest(o, users) # NoResp
            THEN /\ Respond(p, CheckRequest(o, users))
                 /\ UNCHANGED <<dirty, pending>>
            ELSE LET rows == FetchFoods({o.items[k].food_item_id : k \in DOMAIN o.items})
                     v == Validate(o.items, 1, rows, 0, <<>>)
                 IN
                   /\ dirty' = [dirty EXCEPT ![p] = Changed(rows, v.foods)]
                   /\ pending' = [pending EXCEPT ![p] =
                                     [order_id |-> 0, total_amount |-> v.total_amount,
                                      order_items |-> v.order_items]]
                   /\ IF v.err # NoResp
                      THEN Respond(p, v.err)
                      ELSE /\ pc' = [pc EXCEPT ![p] = "commit"]
                           /\ UNCHANGED resp
    /\ UNCHANGED db

\* (variant: the table has no check constraint)
check_quantity_absent(item) == TRUE

\* CheckConstraint("quantity > 0", name="check_quantity_positive")
check_quantity_positive(item) == item.quantity > 0

\* the Order row and its OrderItem rows as inserted
NewOrder(p) ==
    [user_id |-> req[p].user_id,
     total_amount |-> pending[p].total_amount,
     order_items |-> pending[p].order_items]

\* the invoice projection of a persisted order (create_order's refetch,
\* get_order, get_all_orders)
Invoice(os, order_id) ==
    [order_id |-> order_id,
     total_items |-> Len(os[order_id].order_items),
     total_amount |-> os[order_id].total_amount,
     items |-> [k \in DOMAIN os[order_id].order_items |->
                  [food_item_id |-> os[order_id].order_items[k].food_item_id,
                   quantity |-> os[order_id].order_items[k].quantity,
                   unit_price |-> os[order_id].order_items[k].item_price,
                   subtotal |-> os[order_id].order_items[k].total_price]]]

\* db.commit() goes through, then the refetch builds the invoice: the
\* refetch reads only the rows of the order just inserted, which no
\* handler writes, so it is one step with the commit and the response is
\* Invoice(orders, order_id) at any later time
create_order_commit(p) ==
    /\ pc[p] = "commit"
    /\ req[p].op = "create_order"
    /\ \A k \in DOMAIN pending[p].order_items :
          check_quantity_positive(pending[p].order_items[k])
    /\ foods' = Flush(p)
    /\ orders' = Append(orders, NewOrder(p))
    /\ Respond(p, [status |-> 201, order_id |-> Len(orders')])
    /\ Drop(p)
    /\ UNCHANGED users

\* ------------------------------------------------------------------
\* update_food_item, restock_food_item
\* ------------------------------------------------------------------
\* the fields update_food_item sets on the row it read
ApplyUpdate(u, row) ==
    [price |-> IF u.price # None THEN u.price[1] ELSE row.price,
     stock |-> IF u.stock # None THEN u.stock[1] ELSE row.stock]

update_food_item_start(p, u) ==
    /\ FreeSlot(p)
    /\   /\ req' = [req EXCEPT ![p] = [op |-> u.op]]
         /\ IF u.food_id \notin DOMAIN foods
            THEN /\ Respond(p, Error(404, "Food item not found", u.food_id))
                 /\ UNCHANGED dirty
            ELSE IF u.stock # None /\ u.stock[1] < 0
            THEN /\ Respond(p, Error(400, "Stock cannot be negative", u.food_id))
                 /\ UNCHANGED dirty
            ELSE /\ dirty' = [dirty EXCEPT ![p] =
                              Changed(FetchFoods({u.food_id}),
                                      [f \in {u.food_id} |-> ApplyUpdate(u, foods[f])])]
                 /\ pc' = [pc EXCEPT ![p] = "commit"]
                 /\ UNCHANGED resp
    /\ UNCHANGED pending
    /\ UNCHANGED db

\* item.stock += body.added_stock
ApplyRestock(r, row) == [row EXCEPT !.stock = @ + r.added_stock]

restock_food_item_start(p, r) ==
    /\ FreeSlot(p)
    /\   /\ req' = [req EXCEPT ![p] = [op |-> r.op]]
         /\ IF r.food_id \notin DOMAIN foods
            THEN /\ Respond(p, Error(404, "Food item not found", r.food_id))
                 /\ UNCHANGED dirty
            ELSE /\ foods[r.food_id].stock + r.added_stock <= MaxStock
                 /\ dirty' = [dirty EXCEPT ![p] =
                              Changed(FetchFoods({r.food_id}),
                                      [f \in {r.food_id} |-> ApplyRestock(r, foods[f])])]
                 /\ pc' = [pc EXCEPT ![p] = "commit"]
                 /\ UNCHANGED resp
    /\ UNCHANGED pending
    /\ UNCHANGED db

\* the order rows with the prices of the food rows fs
Repriced(os, fs) ==
    [i \in DOMAIN os |->
       LET items == [k \in DOMAIN os[i].order_items |->
                       [os[i].order_items[k] EXCEPT
                          !.item_price = fs[os[i].order_items[k].food_item_id].price,
                          !.total_price = fs[os[i].order_items[k].food_item_id].price
                                          * os[i].order_items[k].quantity]]
       IN [os[i] EXCEPT !.order_items = items,
                        !.total_amount = SumTotalPrice(items)]]

\* (variant: a food item's new price is applied to the orders that hold it)
food_item_commit_reprices(p) ==
    /\ pc[p] = "commit"
    /\ req[p].op \in {"update_food_item", "restock_food_item"}
    /\ foods' = Flush(p)
    /\ orders' = Repriced(orders, Flush(p))
    /\ Respond(p, [status |-> 200])
    /\ Drop(p)
    /\ UNCHANGED users

\* db.commit() of update_food_item and restock_food_item
food_item_commit(p) ==
    /\ pc[p] = "commit"
    /\ req[p].op \in {"update_food_item", "restock_food_item"}
    /\ foods' = Flush(p)
    /\ Respond(p, [status |-> 200])
    /\ Drop(p)
    /\ UNCHANGED <<users, orders>>

\* ------------------------------------------------------------------
\* the steps of the requests in flight
Steps ==
    \/ \E p \in Procs : food_item_commit(p)
    \/ \E p \in Procs : create_order_commit(p)
    \/ \E p \in Procs : commit_fail(p)
    \/ \E p \in Procs : get_db_close(p)

\* stock profile: every handler, one price
Next ==
    \/ \E e \in Emails : create_user(e)
    \/ \E pr \in Prices, st \in StockInputs : create_food_item(pr, st)
    \/ \E p \in Procs, u \in FoodItemUpdate(Prices, StockInputs) :
          update_food_item_start(p, u)
    \/ \E p \in Procs, r \in FoodRestock(RestockInputs) :
          restock_food_item_start(p, r)
    \/ \E p \in Procs, o \in OrderCreate(Quantities) : create_order_start(p, o)
    \/ Steps

Spec == Init /\ [][Next]_vars

\* price profile: every handler, two prices, update_food_item sets prices only
NextPrice ==
    \/ \E e \in Emails : create_user(e)
    \/ \E pr \in PricesP, st \in StockInputsP : create_food_item(pr, st)
    \/ \E p \in Procs, u \in FoodItemUpdate(PricesP, {}) :
          update_food_item_start(p, u)
    \/ \E p \in Procs, r \in FoodRestock(RestockInputsP) :
          restock_food_item_start(p, r)
    \/ \E p \in Procs, o \in OrderCreate(QuantitiesP) : create_order_start(p, o)
    \/ Steps

SpecPrice == Init /\ [][NextPrice]_vars

\* order profile: concurrent create_order requests on a store that holds
\* the food items StartFoods (users and food items were created before)
StartFoods == [f \in FoodIds |-> [price |-> 10 * f, stock |-> StartStock]]

InitOrders ==
    /\ users \in {<<>>, <<[email |-> "a@x"]>>}
    /\ foods \in {SubSeq(StartFoods, 1, n) : n \in 1..MaxFoodId}
    /\ orders = <<>>
    /\ Idle

NextOrders ==
    \/ \E p \in Procs, o \in OrderCreate(QuantitiesO) : create_order_start(p, o)
    \/ \E p \in Procs : create_order_commit(p)
    \/ \E p \in Procs : commit_fail(p)
    \/ \E p \in Procs : get_db_close(p)

SpecOrders == InitOrders /\ [][NextOrders]_vars

\* ==================================================================
\* Properties
\* ==================================================================
\* p takes the step from idle that starts a create_order request
StartsOrder(p) == pc[p] = "idle" /\ req'[p].op = "create_order"

\* p takes the step in which its order is committed
CommitsOrder(p) ==
    /\ pc[p] = "commit" /\ req[p].op = "create_order"
    /\ pc'[p] = "close" /\ resp'[p].status = 201

RECURSIVE CommittedQty(_, _)
CommittedQty(os, f) ==
    IF os = <<>> THEN 0
    ELSE QtyFor(os[1].order_items, f) + CommittedQty(Tail(os), f)

\* C1: concurrent create_order requests never oversell: for every food item
\* the committed quantities sum to no more than the stock there was, and the
\* stock left is the starting stock minus the committed quantities.
C1_NeverOversold ==
    \A f \in DOMAIN foods :
        /\ CommittedQty(orders, f) <= StartFoods[f].stock
        /\ foods[f].stock = StartFoods[f].stock - CommittedQty(orders, f)

\* C2: a create_order request that fails changes nothing that is persisted:
\* neither the step that fails nor the closing of its session changes a
\* table, whatever the session had changed in memory.
C2_FailedOrderChangesNothing ==
    [][\A p \in Procs :
          \/ /\ pc[p] # "close" /\ pc'[p] = "close"
             /\ req[p].op = "create_order" \/ req'[p].op = "create_order"
             /\ resp'[p].status # 201
          \/ /\ pc[p] = "close" /\ pc'[p] = "idle"
             /\ resp[p].status # 201
          => UNCHANGED db]_vars

\* a failed order whose earlier line was accepted and decremented in memory
C2_Witness ==
    \E p \in Procs :
        /\ pc[p] = "close" /\ req[p].op = "create_order"
        /\ resp[p].status = 400
        /\ pending[p].order_items # <<>>
        /\ dirty[p] # <<>>

\* C3: the stock of every food item is >= 0 in every reachable state.
C3_StockNonNegative == \A f \in DOMAIN foods : foods[f].stock >= 0

\* an order has taken the last units of a food item
C3_Witness ==
    \E f \in DOMAIN foods : foods[f].stock = 0 /\ CommittedQty(orders, f) > 0

\* C4: an order is persisted with, per item, the unit price read from the
\* food item when the order was taken and total_price = quantity *
\* item_price, and with total_amount the sum of its items' total_price.
C4_PriceSnapshotAndTotals ==
    [][\A p \in Procs :
          /\ StartsOrder(p) /\ pc'[p] = "commit" =>
                \A k \in DOMAIN pending'[p].order_items :
                    /\ pending'[p].order_items[k].food_item_id = req'[p].items[k].food_item_id
                    /\ pending'[p].order_items[k].quantity = req'[p].items[k].quantity
                    /\ pending'[p].order_items[k].item_price =
                          foods[req'[p].items[k].food_item_id].price
          /\ CommitsOrder(p) =>
                LET o == orders'[Len(orders')] IN
                /\ o.order_items = pending[p].order_items
                /\ Len(o.order_items) = Len(req[p].items)
                /\ \A k \in DOMAIN o.order_items :
                      o.order_items[k].total_price =
                          o.order_items[k].quantity * o.order_items[k].item_price
                /\ o.total_amount = SumTotalPrice(o.order_items)]_vars

\* an order of two items with different unit prices
C4_Witness ==
    \E i \in DOMAIN orders :
        /\ Len(orders[i].order_items) = 2
        /\ orders[i].order_items[1].item_price # orders[i].order_items[2].item_price

\* C5: the commit of an order lowers the stock of each food item by the
\* quantity the order takes of it, and leaves the other food items as they
\* were.
C5_ExactDecrement ==
    [][\A p \in Procs : CommitsOrder(p) =>
          \A f \in DOMAIN foods :
              foods'[f].stock = foods[f].stock - QtyFor(pending[p].order_items, f)]_vars

\* C6: every line of an accepted request is checked against the stock read
\* less the quantities of the earlier lines for the same food item, so the
\* lines for one food item sum to no more than the stock read.
C6_RunningStock ==
    [][\A p \in Procs : StartsOrder(p) /\ pc'[p] = "commit" =>
          /\ \A k \in DOMAIN req'[p].items :
                req'[p].items[k].quantity <=
                    foods[req'[p].items[k].food_item_id].stock
                    - QtyFor(SubSeq(req'[p].items, 1, k - 1),
                             req'[p].items[k].food_item_id)
          /\ \A f \in DOMAIN foods : QtyFor(req'[p].items, f) <= foods[f].stock]_vars

\* a committed order with two lines for the same food item
C6_Witness ==
    \E i \in DOMAIN orders :
        /\ Len(orders[i].order_items) = 2
        /\ orders[i].order_items[1].food_item_id = orders[i].order_items[2].food_item_id

\* C7 (as claimed): a create_order request with an empty item list is
\* answered 400 InvalidRequest whether or not its user exists.
C7_EmptyIsInvalidRequest ==
    \A p \in Procs :
        pc[p] = "close" /\ req[p].op = "create_order" /\ req[p].items = <<>>
        => resp[p].status = 400

\* C7 (amended): the user is looked up first: an empty item list is
\* answered 400 InvalidRequest when the user exists and 404 NotFound when
\* it does not.
C7_EmptyAfterUserLookup ==
    [][\A p \in Procs : StartsOrder(p) /\ req'[p].items = <<>> =>
          /\ pc'[p] = "close"
          /\ resp'[p] = IF req'[p].user_id \in DOMAIN users
                        THEN Error(400, "Order must contain at least one item", 0)
                        ELSE Error(404, "User not found", 0)]_vars

\* both answers to an empty item list
C7_Witness ==
    \E p, q \in Procs :
        /\ pc[p] = "close" /\ req[p].op = "create_order" /\ req[p].items = <<>>
        /\ resp[p].status = 400
        /\ pc[q] = "close" /\ req[q].op = "create_order" /\ req[q].items = <<>>
        /\ resp[q].status = 404

\* the verdict on line k of items, given the stock in the store and the
\* lines before k
LineVerdict(items, k) ==
    LET f == items[k].food_item_id
        running == foods[f].stock - QtyFor(SubSeq(items, 1, k - 1), f)
    IN IF f \notin DOMAIN foods THEN Error(404, "not found", f)
       ELSE IF running = 0 THEN Error(400, "is out of stock", f)
       ELSE IF items[k].quantity > running THEN Error(400, "units available", f)
       ELSE NoResp

\* C8: with an existing user and a non-empty list, the answer is the error
\* of the first invalid line: NotFound for an unknown food item, else
\* OutOfStock for a running stock of zero, else InsufficientStock for a
\* quantity above the running stock; with no invalid line the request is
\* accepted.
C8_FirstInvalidLine ==
    [][\A p \in Procs :
          /\ StartsOrder(p)
          /\ req'[p].user_id \in DOMAIN users
          /\ req'[p].items # <<>>
          => LET items == req'[p].items
                 bad == {k \in DOMAIN items : LineVerdict(items, k) # NoResp}
             IN IF bad = {}
                THEN pc'[p] = "commit"
                ELSE /\ pc'[p] = "close"
                     /\ \E k \in bad :
                          /\ \A j \in bad : k <= j
                          /\ resp'[p] = LineVerdict(items, k)]_vars

\* a second line refused as out of stock after the first line took the stock
C8_Witness ==
    \E p \in Procs :
        /\ pc[p] = "close" /\ req[p].op = "create_order"
        /\ Len(req[p].items) = 2
        /\ resp[p].detail = "is out of stock"
        /\ Len(pending[p].order_items) = 1
        /\ foods[resp[p].food].stock > 0

\* C9: a committed order never changes: its rows, and so the invoice
\* get_order builds of it, are the same after every step.
C9_OrdersImmutable ==
    [][\A i \in DOMAIN orders :
          /\ i \in DOMAIN orders'
          /\ orders'[i] = orders[i]
          /\ Invoice(orders', i) = Invoice(orders, i)]_vars

\* an order holds a unit price that is no longer the food item's price
C9_Witness ==
    \E i \in DOMAIN orders : \E k \in DOMAIN orders[i].order_items :
        orders[i].order_items[k].item_price #
            foods[orders[i].order_items[k].food_item_id].price

\* r is a create_order request with a line of quantity <= 0
HasNonPositiveLine(r) ==
    /\ r.op = "create_order"
    /\ \E k \in DOMAIN r.items : r.items[k].quantity <= 0

\* C10: every persisted order item has quantity > 0, and no step of a
\* create_order request that has a line with quantity <= 0 changes a table.
C10_QuantityPositive ==
    [][/\ \A i \in DOMAIN orders' : \A k \in DOMAIN orders'[i].order_items :
             orders'[i].order_items[k].quantity > 0
       /\ \A p \in Procs :
             /\ HasNonPositiveLine(req[p]) \/ HasNonPositiveLine(req'[p])
             /\ pc'[p] # pc[p]
             => UNCHANGED db]_vars

\* an order with a line of quantity <= 0 has passed validation and is at
\* its commit
C10_Witness ==
    \E p \in Procs :
        /\ pc[p] = "commit" /\ req[p].op = "create_order"
        /\ \E k \in DOMAIN pending[p].order_items :
              pending[p].order_items[k].quantity <= 0

====
